---- MODULE Spec2Model ----
(***************************************************************************)
(* A model of use_model_example.ipynb: the notebook that loads a trained   *)
(* separation model, computes the features of one audio file, chunks them, *)
(* runs the model, applies the masks to the mixture magnitude, reassembles *)
(* the spectrogram of one class and writes the resynthesised audio.        *)
(*                                                                         *)
(* The notebook is run top to bottom: one action per code cell.  A cell    *)
(* that raises stops the run (the notebook has no try/except).             *)
(*                                                                         *)
(* Time is the only tensor axis the notebook indexes, so a tensor is a     *)
(* sequence of frames (one integer per frame).  Python sequences are       *)
(* 0-based and TLA+ sequences 1-based: Slice converts.                     *)
(***************************************************************************)
EXTENDS Integers, Sequences, FiniteSets

VARIABLES pc, error, error_cell, executed,
          model, config, n_classes, grad_enabled,
          audio, magnitude, phase, features,
          features_shape, batch, masks, masks_requires_grad,
          spectrograms, class_spectrograms, source_spectrogram,
          phase_used, separated_audio, output_file

vars == <<pc, error, error_cell, executed,
          model, config, n_classes, grad_enabled,
          audio, magnitude, phase, features,
          features_shape, batch, masks, masks_requires_grad,
          spectrograms, class_spectrograms, source_spectrogram,
          phase_used, separated_audio, output_file>>

(***************************************************************************)
(* Bounds of the model.                                                    *)
(***************************************************************************)
\* longest input, in time frames
MaxT == 5
\* largest chunk time extent
MaxC == 2

(***************************************************************************)
(* Program constants.                                                      *)
(***************************************************************************)
\* class_idx = 9
class_idx == 9

(***************************************************************************)
(* Helpers: Python sequence semantics.                                     *)
(***************************************************************************)
Min(a, b) == IF a <= b THEN a ELSE b

\* s[a:b] of Python for 0 <= a <= b: clamped to the sequence, never an error
Slice(s, a, b) == SubSeq(s, Min(a, Len(s)) + 1, Min(b, Len(s)))

\* x[..., :n]
Prefix(s, n) == Slice(s, 0, n)

\* [f(i) for i in range(n)]
Range0(n) == 0 .. (n - 1)

RECURSIVE Flatten(_)
\* np.concatenate(list, axis=-1) of a non-empty list
Flatten(list) == IF list = <<>> THEN <<>> ELSE Head(list) \o Flatten(Tail(list))

\* str.lower() on the scaling types the model draws
Lower(s) == CASE s = "None" -> "none"
              [] s = "NONE" -> "none"
              [] OTHER -> s

(***************************************************************************)
(* The collaborators of the notebook (separator.py, the data set).         *)
(***************************************************************************)
\* data_set.separated_stft(audio): magnitude and phase of identical shape
stft_magnitude(a) == [t \in 1 .. Len(a) |-> a[t][1]]

stft_phase(a) == [t \in 1 .. Len(a) |-> a[t][2]]

\* data_set.stft_magnitude_to_features: a deterministic compression of the magnitude
stft_magnitude_to_features(m) == [t \in 1 .. Len(m) |-> 10 * m[t]]

\* data_set.shift_and_scale_features: the affine normalisation
shift_and_scale_features(f, shift, scaling) == [t \in 1 .. Len(f) |-> (f[t] + shift) * scaling]

\* one mask value of the network: a function of the parameters, the class and the input frame
mask_value(params, k, x) == IF params.all_ones THEN 1
                            ELSE IF (x >= params.threshold) = (k % 2 = 1) THEN 1 ELSE 0

\* separator.model(chunk): masks[class][time], class 0 .. n-1
model_forward(params, n, chunk) == [k \in Range0(n) |-> [t \in 1 .. Len(chunk) |-> mask_value(params, k, chunk[t])]]

\* separator.separate_spectrogram_in_lin_scale(masks, features_shape, mixture_magnitude)
separate_spectrogram_in_lin_scale(mks, shape, mix) == [k \in DOMAIN mks |-> [t \in 1 .. Len(mix) |-> mks[k][t] * mix[t]]]

\* separator.spectrogram_to_audio(spectrogram, phase): frame t joins magnitude t and phase t
\* (the two arrays must have the same shape)
spectrogram_to_audio(spec, ph) == [t \in 1 .. Len(spec) |-> <<spec[t], ph[t]>>]

(***************************************************************************)
(* What the run can be given: checkpoints and audio files.                 *)
(***************************************************************************)
ScalingTypes == {"none", "None", "standardization"}

ConfigKeys == {"scaling_type", "shift", "scaling", "sampling_rate"}

\* the configuration dictionaries drawn: complete, or lacking some keys
KeySets == {ConfigKeys} \cup {ConfigKeys \ {k} : k \in ConfigKeys} \cup {ConfigKeys \ {"shift", "scaling"}}

Configs == [keys : KeySets, scaling_type : ScalingTypes, shift : {1}, scaling : {2},
            sampling_rate : {16000}, chunk_time : 1 .. MaxC]

\* the network's parameters, and the chunk time extent it was built for
Models(C) == [all_ones : {TRUE}, threshold : {0}, time_extent : {C, C + 1}]
               \cup [all_ones : {FALSE}, threshold : {15, 30}, time_extent : {C}]

\* a frame of the mixture: <<magnitude, phase>>
Frames == {<<1, 0>>, <<2, 1>>}

Waveforms == UNION {[1 .. T -> Frames] : T \in 0 .. MaxT}

NoModel == [all_ones |-> FALSE, threshold |-> 0, time_extent |-> 0]

NoConfig == [keys |-> {}, scaling_type |-> "", shift |-> 0, scaling |-> 0,
             sampling_rate |-> 0, chunk_time |-> 0]

(***************************************************************************)
(* The notebook's cells, in the order they are run.                        *)
(***************************************************************************)
Cells == <<"Loaded", "AudioLoaded", "Extracted", "Chunked", "Inferred",
           "Masked", "Selected", "Concatenated", "Resynthesized", "Written">>

\* a slip: the finished run starts over on the next file without reloading
CellAfterLooping(p) == CASE p = "Start" -> "Loaded"
                         [] p = "Loaded" -> "AudioLoaded"
                         [] p = "AudioLoaded" -> "Extracted"
                         [] p = "Extracted" -> "Chunked"
                         [] p = "Chunked" -> "Inferred"
                         [] p = "Inferred" -> "Masked"
                         [] p = "Masked" -> "Selected"
                         [] p = "Selected" -> "Concatenated"
                         [] p = "Concatenated" -> "Resynthesized"
                         [] p = "Resynthesized" -> "Written"
                         [] p = "Written" -> "AudioLoaded"
                         [] OTHER -> "none"

\* the cell that runs next at position p (a position is the last cell completed)
CellAfter(p) == CASE p = "Start" -> "Loaded"
                  [] p = "Loaded" -> "AudioLoaded"
                  [] p = "AudioLoaded" -> "Extracted"
                  [] p = "Extracted" -> "Chunked"
                  [] p = "Chunked" -> "Inferred"
                  [] p = "Inferred" -> "Masked"
                  [] p = "Masked" -> "Selected"
                  [] p = "Selected" -> "Concatenated"
                  [] p = "Concatenated" -> "Resynthesized"
                  [] p = "Resynthesized" -> "Written"
                  [] OTHER -> "none"

Runs(cell) == CellAfter(pc) = cell

\* a slip: the exception is caught and logged, and the run goes on with the next cell
RaiseSwallowed(kind, cell) ==
    /\ pc' = cell
    /\ error' = kind
    /\ error_cell' = cell
    /\ UNCHANGED executed

\* the cell raised: nothing catches the exception, the run stops there
Raise(kind, cell) ==
    /\ pc' = "Error"
    /\ error' = kind
    /\ error_cell' = cell
    /\ UNCHANGED executed

\* the cell completed
Done(cell) ==
    /\ pc' = cell
    /\ executed' = Append(executed, cell)
    /\ UNCHANGED <<error, error_cell>>

\* before the first cell: nothing is loaded; torch tracks gradients by default
Init ==
    /\ pc = "Start"
    /\ error = "none"
    /\ error_cell = "none"
    /\ executed = <<>>
    /\ model = NoModel
    /\ config = NoConfig
    /\ n_classes = 0
    /\ grad_enabled = TRUE
    /\ audio = <<>>
    /\ magnitude = <<>>
    /\ phase = <<>>
    /\ features = <<>>
    /\ features_shape = 0
    /\ batch = <<>>
    /\ masks = <<>>
    /\ masks_requires_grad = FALSE
    /\ spectrograms = <<>>
    /\ class_spectrograms = <<>>
    /\ source_spectrogram = <<>>
    /\ phase_used = <<>>
    /\ separated_audio = <<>>
    /\ output_file = <<>>

\* separator = AudioSeparator.from_checkpoint({...})
FromCheckpoint ==
    /\ Runs("Loaded")
    /\ \/ /\ Raise("LoadError", "Loaded")
          /\ UNCHANGED <<model, config, n_classes>>
       \/ /\ \E cfg \in Configs : \E m \in Models(cfg.chunk_time) :
                /\ config' = cfg
                /\ model' = m
          /\ n_classes' \in {class_idx, class_idx + 1}
          /\ Done("Loaded")
    /\ UNCHANGED <<grad_enabled, audio, magnitude, phase, features, features_shape, batch,
                   masks, masks_requires_grad, spectrograms, class_spectrograms,
                   source_spectrogram, phase_used, separated_audio, output_file>>

\* audio = separator.data_set.load_audio("path_to_wav_to_separate.wav")
LoadAudio ==
    /\ Runs("AudioLoaded")
    /\ \/ /\ Raise("IOError", "AudioLoaded")
          /\ UNCHANGED audio
       \/ /\ audio' \in Waveforms
          /\ Done("AudioLoaded")
    /\ UNCHANGED <<model, config, n_classes, grad_enabled, magnitude, phase, features,
                   features_shape, batch, masks, masks_requires_grad, spectrograms,
                   class_spectrograms, source_spectrogram, phase_used, separated_audio, output_file>>

\* a slip: missing scaling parameters replaced by defaults, so nothing is looked up
ScalingKeysReadLenient(cfg) == <<>>

\* the keys the feature cell looks up, in the order it looks them up
ScalingKeysRead(cfg) == IF "scaling_type" \notin cfg.keys THEN <<"scaling_type">>
                        ELSE IF Lower(cfg.scaling_type) # "none" THEN <<"scaling_type", "shift", "scaling">>
                        ELSE <<"scaling_type">>

\* a dictionary lookup of a key that is absent raises KeyError
LookupRaises(cfg, ks) == \E j \in 1 .. Len(ks) : ks[j] \notin cfg.keys

\* the error a failed configuration lookup surfaces as
LookupError == "KeyError"

\* a slip: statistics taken from the input instead of the stored shift
ScaledFeaturesRecomputed(f, cfg) == IF Lower(cfg.scaling_type) # "none"
                                    THEN shift_and_scale_features(f, 0 - f[1], cfg.scaling)
                                    ELSE f

\* if config['scaling_type'].lower() != "none": features = shift_and_scale_features(...)
ScaledFeatures(f, cfg) == IF Lower(cfg.scaling_type) # "none"
                          THEN shift_and_scale_features(f, cfg.shift, cfg.scaling)
                          ELSE f

\* magnitude, phase = separated_stft(audio); features = ...; scaling
Extract ==
    /\ Runs("Extracted")
    /\ magnitude' = stft_magnitude(audio)
    /\ phase' = stft_phase(audio)
    /\ \/ /\ LookupRaises(config, ScalingKeysRead(config))
          /\ features' = stft_magnitude_to_features(magnitude')
          /\ Raise(LookupError, "Extracted")
       \/ /\ ~LookupRaises(config, ScalingKeysRead(config))
          /\ features' = ScaledFeatures(stft_magnitude_to_features(magnitude'), config)
          /\ Done("Extracted")
    /\ UNCHANGED <<model, config, n_classes, grad_enabled, audio, features_shape, batch,
                   masks, masks_requires_grad, spectrograms, class_spectrograms,
                   source_spectrogram, phase_used, separated_audio, output_file>>

\* range(features.shape[-1] // features_shape[-1])
NChunks(T, C) == T \div C

\* features[..., i*features_shape[-1]:(i+1)*features_shape[-1]]
FeatureChunk(f, C, i) == Slice(f, i * C, (i + 1) * C)

\* the list comprehension handed to torch.stack
ChunkList(f, C) == [j \in 1 .. NChunks(Len(f), C) |-> FeatureChunk(f, C, j - 1)]

\* torch.stack of an empty list raises RuntimeError
StackRaises(list) == list = <<>>

\* features_shape = ...; batch = torch.stack([...], 0)
Chunk ==
    /\ Runs("Chunked")
    /\ features_shape' = config.chunk_time
    /\ \/ /\ StackRaises(ChunkList(features, features_shape'))
          /\ Raise("RuntimeError", "Chunked")
          /\ UNCHANGED batch
       \/ /\ ~StackRaises(ChunkList(features, features_shape'))
          /\ batch' = ChunkList(features, features_shape')
          /\ Done("Chunked")
    /\ UNCHANGED <<model, config, n_classes, grad_enabled, audio, magnitude, phase, features,
                   masks, masks_requires_grad, spectrograms, class_spectrograms,
                   source_spectrogram, phase_used, separated_audio, output_file>>

\* the model rejects a batch whose chunk shape is not the one it was built for
ShapeMismatch(m, b) == \E j \in 1 .. Len(b) : Len(b[j]) # m.time_extent

\* a slip: a forward pass that updates the network (a training step)
ModelAfterTrainingStep(m) == [m EXCEPT !.threshold = m.threshold + 1]

\* the forward call reads the parameters and assigns none
ModelAfterForward(m) == m

\* _, masks = separator.model(batch)
Infer ==
    /\ Runs("Inferred")
    /\ \/ /\ ShapeMismatch(model, batch)
          /\ Raise("InferenceError", "Inferred")
          /\ UNCHANGED <<model, masks, masks_requires_grad>>
       \/ /\ ~ShapeMismatch(model, batch)
          /\ masks' = [j \in 1 .. Len(batch) |-> model_forward(model, n_classes, batch[j])]
          /\ masks_requires_grad' = grad_enabled
          /\ model' = ModelAfterForward(model)
          /\ Done("Inferred")
    /\ UNCHANGED <<config, n_classes, grad_enabled, audio, magnitude, phase, features,
                   features_shape, batch, spectrograms, class_spectrograms,
                   source_spectrogram, phase_used, separated_audio, output_file>>

\* masks[i].detach(): the same values, cut from the gradient graph
Detach(m) == m

\* the slip the regression guard is about: the normalised features as the operand
MagnitudeChunkOfFeatures(mag, feat, C, i) == Slice(feat, i * C, (i + 1) * C)

\* magnitude[..., i*features_shape[-1]:(i+1)*features_shape[-1]]
MagnitudeChunk(mag, feat, C, i) == Slice(mag, i * C, (i + 1) * C)

\* spectrograms = [separate_spectrogram_in_lin_scale(...) for i in range(batch.shape[0])]
ApplyMasks ==
    /\ Runs("Masked")
    /\ spectrograms' = [j \in 1 .. Len(batch) |->
                          separate_spectrogram_in_lin_scale(
                              Detach(masks[j]), features_shape,
                              MagnitudeChunk(magnitude, features, features_shape, j - 1))]
    /\ Done("Masked")
    /\ UNCHANGED <<model, config, n_classes, grad_enabled, audio, magnitude, phase, features,
                   features_shape, batch, masks, masks_requires_grad, class_spectrograms,
                   source_spectrogram, phase_used, separated_audio, output_file>>

\* spec[class_idx] raises IndexError when the vocabulary has no class class_idx
IndexRaises(n) == class_idx >= n

\* class_spectrograms = [spec[class_idx].squeeze() for spec in spectrograms]
SelectClass ==
    /\ Runs("Selected")
    /\ \/ /\ IndexRaises(n_classes)
          /\ Raise("IndexError", "Selected")
          /\ UNCHANGED class_spectrograms
       \/ /\ ~IndexRaises(n_classes)
          /\ class_spectrograms' = [j \in 1 .. Len(spectrograms) |-> spectrograms[j][class_idx]]
          /\ Done("Selected")
    /\ UNCHANGED <<model, config, n_classes, grad_enabled, audio, magnitude, phase, features,
                   features_shape, batch, masks, masks_requires_grad, spectrograms,
                   source_spectrogram, phase_used, separated_audio, output_file>>

RECURSIVE FlattenReversed(_)
\* a slip: the chunks joined last first
FlattenReversed(list) == IF list = <<>> THEN <<>> ELSE FlattenReversed(Tail(list)) \o Head(list)

\* np.concatenate(class_spectrograms, axis=-1): the chunks in list order, along time
ConcatenateChunks(list) == Flatten(list)

\* source_spectrogram = np.concatenate(class_spectrograms, axis=-1)
Concatenate ==
    /\ Runs("Concatenated")
    /\ IF class_spectrograms = <<>>
       THEN /\ Raise("ValueError", "Concatenated")
            /\ UNCHANGED source_spectrogram
       ELSE /\ source_spectrogram' = ConcatenateChunks(class_spectrograms)
            /\ Done("Concatenated")
    /\ UNCHANGED <<model, config, n_classes, grad_enabled, audio, magnitude, phase, features,
                   features_shape, batch, masks, masks_requires_grad, spectrograms,
                   class_spectrograms, phase_used, separated_audio, output_file>>

\* a slip: the last L frames of the phase instead of the first L
TruncatedPhaseTail(ph, spec) == Slice(ph, Len(ph) - Len(spec), Len(ph))

\* phase[..., :source_spectrogram.shape[-1]]
TruncatedPhase(ph, spec) == Prefix(ph, Len(spec))

\* separated_audio = separator.spectrogram_to_audio(source_spectrogram, phase[..., :L])
Resynthesize ==
    /\ Runs("Resynthesized")
    /\ phase_used' = TruncatedPhase(phase, source_spectrogram)
    /\ IF Len(phase_used') # Len(source_spectrogram)
       THEN /\ Raise("ValueError", "Resynthesized")
            /\ UNCHANGED separated_audio
       ELSE /\ separated_audio' = spectrogram_to_audio(source_spectrogram, phase_used')
            /\ Done("Resynthesized")
    /\ UNCHANGED <<model, config, n_classes, grad_enabled, audio, magnitude, phase, features,
                   features_shape, batch, masks, masks_requires_grad, spectrograms,
                   class_spectrograms, source_spectrogram, output_file>>

\* librosa.output.write_wav("path_to_output.wav", separated_audio, sr=config['sampling_rate'])
WriteWav ==
    /\ Runs("Written")
    /\ \/ /\ LookupRaises(config, <<"sampling_rate">>)
          /\ Raise(LookupError, "Written")
          /\ UNCHANGED output_file
       \/ /\ ~LookupRaises(config, <<"sampling_rate">>)
          /\ Raise("IOError", "Written")
          /\ UNCHANGED output_file
       \/ /\ ~LookupRaises(config, <<"sampling_rate">>)
          /\ output_file' = <<[samples |-> separated_audio, sr |-> config.sampling_rate]>>
          /\ Done("Written")
    /\ UNCHANGED <<model, config, n_classes, grad_enabled, audio, magnitude, phase, features,
                   features_shape, batch, masks, masks_requires_grad, spectrograms,
                   class_spectrograms, source_spectrogram, phase_used, separated_audio>>

Next ==
    \/ FromCheckpoint
    \/ LoadAudio
    \/ Extract
    \/ Chunk
    \/ Infer
    \/ ApplyMasks
    \/ SelectClass
    \/ Concatenate
    \/ Resynthesize
    \/ WriteWav

Spec == Init /\ [][Next]_vars

(***************************************************************************)
(* Vocabulary of the properties.                                           *)
(***************************************************************************)
\* the cell completed in this run
Reached(cell) == \E j \in 1 .. Len(executed) : executed[j] = cell

\* the cell was run: it completed or it raised
Attempted(cell) == Reached(cell) \/ error_cell = cell

\* T, the time length of the feature tensor
TimeTotal == Len(features)

\* C, the chunk time extent
TimeChunk == config.chunk_time

\* floor(T / C)
FullChunks == TimeTotal \div TimeChunk

\* L = C * floor(T / C), the truncated length
TruncatedLength == TimeChunk * FullChunks

\* frame t (0-based) of the input is frame (t mod C) of chunk (t div C)
ChunksCoverPrefix ==
    /\ \A j \in 1 .. Len(batch) : Len(batch[j]) = TimeChunk
    /\ \A t \in 0 .. (TruncatedLength - 1) :
          batch[(t \div TimeChunk) + 1][(t % TimeChunk) + 1] = features[t + 1]

(***************************************************************************)
(* C1.  For every feature tensor of time length T >= 0 and chunk extent    *)
(* C >= 1 the Chunker produces exactly floor(T/C) chunks, and the          *)
(* concatenated per-class spectrogram has length C * floor(T/C) <= T; the  *)
(* T mod C trailing frames are in no chunk and in no output frame.         *)
(* Stated for every run that gets to the Chunker: it yields the batch, and *)
(* the run yields the concatenated spectrogram unless a cell between the   *)
(* two raised for a reason of its own.                                     *)
(***************************************************************************)
C1_ChunkCountAndLength ==
    /\ Attempted("Chunked") =>
          /\ Reached("Chunked")
          /\ Len(batch) = FullChunks
          /\ ChunksCoverPrefix
    /\ Reached("Concatenated") =>
          /\ Len(source_spectrogram) = TruncatedLength
          /\ TruncatedLength <= TimeTotal

(***************************************************************************)
(* C10.  Discarding the trailing partial chunk is never an error: for      *)
(* every T >= 0 and C >= 1, inputs shorter than one chunk included, the    *)
(* Chunker completes without an error and yields a batch of exactly        *)
(* floor(T/C) chunks, each of C frames (no padding).                       *)
(***************************************************************************)
C10_ChunkerNeverFails ==
    Attempted("Chunked") =>
        /\ error_cell # "Chunked"
        /\ Len(batch) = FullChunks
        /\ \A j \in 1 .. Len(batch) : Len(batch[j]) = TimeChunk

(***************************************************************************)
(* C2.  Mask application takes the raw magnitude as its operand, never the *)
(* normalised features: for every chunk i the mask computed from feature   *)
(* frames [i*C, (i+1)*C) multiplies the raw magnitude frames of the same   *)
(* range, and there is exactly one per-chunk spectrogram per chunk.        *)
(***************************************************************************)
C2_MaskOnRawMagnitude ==
    Reached("Masked") =>
        /\ Len(spectrograms) = Len(batch)
        /\ Len(batch) = FullChunks
        /\ \A i \in 0 .. (FullChunks - 1) :
              /\ \A t \in 1 .. TimeChunk : batch[i + 1][t] = features[i * TimeChunk + t]
              /\ masks[i + 1] = model_forward(model, n_classes, batch[i + 1])
              /\ \A k \in 0 .. (n_classes - 1) :
                    /\ Len(spectrograms[i + 1][k]) = TimeChunk
                    /\ \A t \in 1 .. TimeChunk :
                          spectrograms[i + 1][k][t]
                              = masks[i + 1][k][t] * magnitude[i * TimeChunk + t]

\* two chunks whose frames differ, masks that let some frames through, and
\* features that differ from the magnitude they were computed from
C2_Witness ==
    /\ Reached("Masked")
    /\ Len(batch) = 2
    /\ batch[1] # batch[2]
    /\ features # magnitude
    /\ \E t \in 1 .. TimeChunk : masks[2][class_idx - 1][t] = 1
    /\ \E t \in 1 .. TimeChunk : masks[2][class_idx - 1][t] = 0

(***************************************************************************)
(* C3.  At resynthesis the phase handed to the inverse transform is the    *)
(* mixture's phase restricted to its first L frames, L = C * floor(T/C)    *)
(* being the length of the separated spectrogram: same length, and frame t *)
(* of it is frame t of the original phase.                                 *)
(***************************************************************************)
C3_PhaseTruncated ==
    Attempted("Resynthesized") =>
        /\ Len(source_spectrogram) = TruncatedLength
        /\ Len(phase_used) = Len(source_spectrogram)
        /\ \A t \in 1 .. Len(phase_used) : phase_used[t] = audio[t][2]
        /\ Reached("Resynthesized")
        /\ \A t \in 1 .. TruncatedLength :
              separated_audio[t] = <<source_spectrogram[t], audio[t][2]>>

\* a tail was dropped, and the phase of the dropped tail differs from the phase kept
C3_Witness ==
    /\ Reached("Resynthesized")
    /\ Len(phase_used) = 2
    /\ Len(phase) = 3
    /\ phase[1] # phase[2]
    /\ phase[2] # phase[3]

(***************************************************************************)
(* C5.  When every mask value of the selected class is 1, the concatenated *)
(* spectrogram of that class is the raw magnitude on frames                *)
(* [0, C*floor(T/C)), frame for frame and in order; an input with          *)
(* 2C <= T < 3C gives exactly 2 chunks.                                    *)
(***************************************************************************)
C5_AllOnesReproducesMagnitude ==
    /\ (Reached("Chunked") /\ 2 * TimeChunk <= TimeTotal /\ TimeTotal < 3 * TimeChunk)
          => Len(batch) = 2
    /\ (/\ Reached("Concatenated")
        /\ \A j \in 1 .. Len(masks) : \A t \in 1 .. TimeChunk : masks[j][class_idx][t] = 1)
          => /\ Len(source_spectrogram) = TruncatedLength
             /\ \A t \in 1 .. TruncatedLength : source_spectrogram[t] = magnitude[t]
             /\ \A t \in 0 .. (TruncatedLength - 1) :
                   source_spectrogram[t + 1]
                       = class_spectrograms[(t \div TimeChunk) + 1][(t % TimeChunk) + 1]

\* two full chunks that differ and a dropped frame, under all-ones masks
C5_Witness ==
    /\ Reached("Concatenated")
    /\ \A j \in 1 .. Len(masks) : \A t \in 1 .. TimeChunk : masks[j][class_idx][t] = 1
    /\ Len(batch) = 2
    /\ TimeTotal = 2 * TimeChunk + 1
    /\ class_spectrograms[1] # class_spectrograms[2]
    /\ source_spectrogram = SubSeq(magnitude, 1, 2 * TimeChunk)

(***************************************************************************)
(* C4.  Normalisation is decided by the stored training configuration      *)
(* alone.  As stated: scaling_type "none" leaves the features unchanged,   *)
(* and any other scaling_type shifts and scales them with the stored shift *)
(* and scaling.                                                            *)
(***************************************************************************)
C4_NormalizeAsStated ==
    Reached("Extracted") =>
        features = IF config.scaling_type = "none"
                   THEN stft_magnitude_to_features(magnitude)
                   ELSE shift_and_scale_features(stft_magnitude_to_features(magnitude),
                                                 config.shift, config.scaling)

(***************************************************************************)
(* C4, amended.  The comparison with "none" ignores letter case: when      *)
(* scaling_type lower-cased is "none" the features are unchanged, and      *)
(* otherwise they are shifted and scaled with exactly the stored shift and *)
(* scaling, never with statistics of the input.                            *)
(***************************************************************************)
C4_NormalizeCaseInsensitive ==
    Reached("Extracted") =>
        /\ Len(features) = Len(magnitude)
        /\ \A t \in 1 .. Len(features) :
              features[t] = IF Lower(config.scaling_type) = "none"
                            THEN stft_magnitude_to_features(magnitude)[t]
                            ELSE (stft_magnitude_to_features(magnitude)[t] + config.shift)
                                     * config.scaling

\* a run whose features were normalised with the stored values
C4_Witness ==
    /\ Reached("Extracted")
    /\ config.scaling_type = "standardization"
    /\ Len(features) >= 2
    /\ features[1] # features[2]
    /\ features # stft_magnitude_to_features(magnitude)

(***************************************************************************)
(* C6.  As stated: when scaling_type is not "none" and the configuration   *)
(* lacks shift or scaling, the run fails with a ConfigError, before any    *)
(* chunking, inference or writing.                                         *)
(***************************************************************************)
C6_ConfigErrorAsStated ==
    (/\ Attempted("Extracted")
     /\ "scaling_type" \in config.keys
     /\ config.scaling_type # "none"
     /\ ~({"shift", "scaling"} \subseteq config.keys))
        => /\ pc = "Error"
           /\ error = "ConfigError"
           /\ ~Attempted("Chunked")
           /\ batch = <<>> /\ masks = <<>> /\ output_file = <<>>

(***************************************************************************)
(* C6, amended.  When scaling_type lower-cased is not "none" and the       *)
(* configuration lacks shift or scaling, the run fails in the feature cell *)
(* with the KeyError of the dictionary lookup, before any chunking,        *)
(* inference or writing.                                                   *)
(***************************************************************************)
C6_MissingScalingIsKeyError ==
    (/\ Attempted("Extracted")
     /\ "scaling_type" \in config.keys
     /\ Lower(config.scaling_type) # "none"
     /\ ~({"shift", "scaling"} \subseteq config.keys))
        => /\ pc = "Error"
           /\ error = "KeyError"
           /\ error_cell = "Extracted"
           /\ ~Attempted("Chunked")
           /\ batch = <<>> /\ masks = <<>> /\ output_file = <<>>

\* the feature cell ran on a configuration that asks for scaling and lacks the shift
C6_Witness ==
    /\ Attempted("Extracted")
    /\ config.scaling_type = "standardization"
    /\ "shift" \notin config.keys
    /\ "scaling" \in config.keys
    /\ Len(magnitude) >= 2
    /\ error = "KeyError"

(***************************************************************************)
(* C7.  Every error is fatal: once a cell has raised, the run is in the    *)
(* error state with the error surfaced, no later cell has run, no cell is  *)
(* run again, no audio file is written, and the run takes no further step. *)
(***************************************************************************)
C7_ErrorsAreFatal ==
    [][/\ error = "none"
       /\ pc # "Error"
       /\ error' # "none" =>
             /\ pc' = "Error"
             /\ error_cell' = Cells[Len(executed) + 1]
             /\ executed' = executed
             /\ \A j \in 1 .. Len(Cells) : Reached(Cells[j])' => j <= Len(executed)
             /\ \A i, j \in 1 .. Len(executed') : executed'[i] = executed'[j] => i = j
             /\ output_file' = <<>>]_vars

\* the last cell raised: nine cells ran, the audio was resynthesised, nothing was written
C7_Witness ==
    /\ pc = "Error"
    /\ error = "IOError"
    /\ error_cell = "Written"
    /\ Len(executed) = 9
    /\ Len(separated_audio) >= 2
    /\ output_file = <<>>

\* what each cell assigns is still unset while the cell has not run
LaterOutputsUnset ==
    /\ ~Attempted("Loaded") => (model = NoModel /\ config = NoConfig /\ n_classes = 0)
    /\ ~Attempted("AudioLoaded") => audio = <<>>
    /\ ~Attempted("Extracted") => (magnitude = <<>> /\ phase = <<>> /\ features = <<>>)
    /\ ~Attempted("Chunked") => (features_shape = 0 /\ batch = <<>>)
    /\ ~Attempted("Inferred") => masks = <<>>
    /\ ~Attempted("Masked") => spectrograms = <<>>
    /\ ~Attempted("Selected") => class_spectrograms = <<>>
    /\ ~Attempted("Concatenated") => source_spectrogram = <<>>
    /\ ~Attempted("Resynthesized") => (phase_used = <<>> /\ separated_audio = <<>>)
    /\ ~Reached("Written") => output_file = <<>>

(***************************************************************************)
(* C8.  The stages are entered in the fixed order Loaded, Extracted,       *)
(* Chunked, Inferred, Resynthesized, Written, each at most once, none      *)
(* skipped, repeated or reordered; a stage has only the values of earlier  *)
(* stages to read; once Written is reached the run takes no further step.  *)
(* Stated on the cells, which refine the stages.                           *)
(***************************************************************************)
C8_StageOrder ==
    [][/\ pc # "Written"
       /\ executed' # executed =>
             /\ Len(executed) < Len(Cells)
             /\ executed' = Append(executed, Cells[Len(executed) + 1])
             /\ pc' = Cells[Len(executed) + 1]
       /\ executed' = executed => pc' = "Error"
       /\ LaterOutputsUnset'
       /\ \A i, j \in 1 .. Len(executed') : executed'[i] = executed'[j] => i = j]_vars

\* a complete run: every cell once, in order, and the file written
C8_Witness ==
    /\ pc = "Written"
    /\ executed = Cells
    /\ Len(output_file) = 1
    /\ Len(output_file[1].samples) >= 2

====
